---- MODULE Spec2Model ----
(***************************************************************************)
(* Model of src/workflow/main.js: the page controller that binds the       *)
(* campaign form, the leads form, the dashboard statistics fetch, the      *)
(* checkout button and the same-page anchors to their handlers.            *)
(*                                                                         *)
(* Every async handler is cut at its await points: one action for the      *)
(* synchronous prefix up to the first await, one action for each           *)
(* continuation that runs when the awaited promise settles.                *)
(***************************************************************************)
EXTENDS Integers, Sequences, FiniteSets

VARIABLES
    dom,          \* ids (and selectors) of the elements present in the document
    search,       \* value of the "campaign" query parameter of the document URL
    location,     \* last URL assigned to window.location.href, NoNavigation if none
    handler,      \* per invocation: which submit listener it is an invocation of
    pc,           \* per invocation: the await point it is suspended at
    campaignId,   \* per invocation: local const campaignId
    leadsText,    \* per invocation: local const leadsText
    leads,        \* per invocation: local const leads
    requests,     \* per invocation: the fetch() calls it made, in call order
    responses,    \* per request: Pending, Rejected, or the response that arrived
    console,      \* messages passed to console.error, per invocation
    escaped,      \* the handler runs an exception escaped from
    textContent,  \* text of the four dashboard elements
    statsPc,      \* await point of fetchDashboardStats
    loaded,       \* TRUE once the DOMContentLoaded listener has run
    prevented,    \* number of events whose default action was suppressed
    clicked,      \* href of every anchor clicked so far, in click order
    scrolled      \* per anchor click: the element scrollIntoView was called on

vars == <<dom, search, location, handler, pc, campaignId, leadsText, leads,
          requests, responses, console, escaped, textContent, statsPc, loaded,
          prevented, clicked, scrolled>>

flowVars == <<handler, pc, campaignId, leadsText, leads>>
dashVars == <<textContent, statsPc, loaded, prevented, clicked, scrolled>>

-----------------------------------------------------------------------------
(* Bounds *)

MaxInv == 2        \* submit-handler invocations per page load
MaxLen == 7        \* characters in the leads textarea
MaxClicks == 2     \* clicks on anchors and on the checkout button

Invocations == 1..MaxInv

-----------------------------------------------------------------------------
(* JavaScript values *)

Str(s) == [t |-> "string", s |-> s]
Num(n) == [t |-> "number", n |-> n]
Undefined == [t |-> "undefined"]
Null == [t |-> "null"]

\* Text typed into the textarea is a sequence of characters.
Alphabet == {"a", "b", " ", ",", "\n"}
WhiteSpace == {" ", "\t", "\r", "\n"}

Texts == UNION {[1..n -> Alphabet] : n \in 0..MaxLen}

\* String.prototype.split with a one-character separator.
RECURSIVE Split(_, _)
Split(s, sep) ==
    IF \A k \in 1..Len(s) : s[k] # sep
    THEN <<s>>
    ELSE LET p == CHOOSE k \in 1..Len(s) :
                    s[k] = sep /\ \A j \in 1..(k - 1) : s[j] # sep
         IN <<SubSeq(s, 1, p - 1)>> \o Split(SubSeq(s, p + 1, Len(s)), sep)

RECURSIVE TrimStart(_)
TrimStart(s) ==
    IF s # <<>> /\ Head(s) \in WhiteSpace THEN TrimStart(Tail(s)) ELSE s

RECURSIVE TrimEnd(_)
TrimEnd(s) ==
    IF s # <<>> /\ s[Len(s)] \in WhiteSpace
    THEN TrimEnd(SubSeq(s, 1, Len(s) - 1))
    ELSE s

\* String.prototype.trim
Trim(s) == TrimEnd(TrimStart(s))

\* v?.trim()
OptTrim(v) == IF v = Undefined THEN Undefined ELSE Str(Trim(v.s))

\* ToBoolean of a text value or undefined
Truthy(v) == v.t = "string" /\ v.s # <<>>

\* Mutant of Destructure: a missing second element falls back to the first
DestructureFallback(parts) ==
    [name  |-> Str(parts[1]),
     phone |-> IF Len(parts) >= 2 THEN Str(parts[2]) ELSE Str(parts[1])]

\* Mutant of Destructure: the phone is the last element, not the second
DestructureLast(parts) ==
    [name  |-> Str(parts[1]),
     phone |-> IF Len(parts) >= 2 THEN Str(parts[Len(parts)]) ELSE Undefined]

\* const [name, phone] = line.split(',')
Destructure(parts) ==
    [name  |-> Str(parts[1]),
     phone |-> IF Len(parts) >= 2 THEN Str(parts[2]) ELSE Undefined]

\* line => { const [name, phone] = ...; return { name: name?.trim(), phone: phone?.trim() } }
MapLine(line) ==
    LET d == Destructure(Split(line, ","))
    IN [name |-> OptTrim(d.name), phone |-> OptTrim(d.phone)]

\* Mutant of KeepLead: || in place of &&
KeepLeadEither(lead) == Truthy(lead.name) \/ Truthy(lead.phone)

\* lead => lead.name && lead.phone
KeepLead(lead) == Truthy(lead.name) /\ Truthy(lead.phone)

\* Mutant of ParseLeads: the lines are taken last to first
ParseLeadsReversed(text) ==
    LET lines == Split(text, "\n")
        mapped == [k \in 1..Len(lines) |-> MapLine(lines[Len(lines) + 1 - k])]
    IN SelectSeq(mapped, KeepLead)

\* leadsText.split('\n').map(...).filter(...)
ParseLeads(text) ==
    LET lines == Split(text, "\n")
        mapped == [k \in 1..Len(lines) |-> MapLine(lines[k])]
    IN SelectSeq(mapped, KeepLead)

-----------------------------------------------------------------------------
(* JSON values, property access, string conversion *)

Obj(fields) == [t |-> "object", f |-> fields]
NoFields == [k \in {} |-> Undefined]

\* A response body that is not JSON: response.json() rejects on it.
NotJson == [t |-> "text"]

\* v.k throws a TypeError when v is null or undefined
Throws(v) == v.t \in {"null", "undefined"}

\* v.k otherwise: the property, or undefined when v has no such property
Get(v, k) == IF v.t = "object" /\ k \in DOMAIN v.f THEN v.f[k] ELSE Undefined

Digits == <<"0", "1", "2", "3", "4", "5", "6", "7", "8", "9">>

RECURSIVE NumToString(_)
NumToString(n) ==
    IF n < 10 THEN Digits[n + 1]
    ELSE NumToString(n \div 10) \o Digits[(n % 10) + 1]

\* ToString, as applied by string concatenation and template literals
JsToString(v) ==
    CASE v.t = "string"    -> v.s
      [] v.t = "number"    -> NumToString(v.n)
      [] v.t = "undefined" -> "undefined"
      [] v.t = "null"      -> "null"
      [] OTHER             -> "[object Object]"

-----------------------------------------------------------------------------
(* Network *)

Pending == [state |-> "pending"]
Rejected == [state |-> "rejected"]
Arrived(body) == [state |-> "arrived", body |-> body]

CreateBodies ==
    {NotJson, Null, Obj(NoFields),
     Obj([status |-> Str("error")]),
     Obj([status |-> Str("success")]),
     Obj([status |-> Str("success"), campaign_id |-> Str("42")]),
     Obj([status |-> Str("success"), campaign_id |-> Num(17)])}

UploadBodies ==
    {NotJson, Null, Obj(NoFields),
     Obj([status |-> Str("error")]),
     Obj([status |-> Str("success")])}

LaunchBodies ==
    {NotJson, Null, Obj(NoFields),
     Obj([status |-> Str("success")]),
     Obj([status |-> Str("started")])}

Outcomes(bodies) == {Rejected} \cup {Arrived(b) : b \in bodies}

\* Invocation number of fetchDashboardStats in requests and console
Stats == 0

Callers == {Stats} \cup Invocations

\* The response invocation i is awaiting: that of the last request it made.
CurrentResponse(i) == responses[i][Len(responses[i])]

\* fetch(url, {method, body}): the request leaves, its promise is pending
Fetch(i, method, url, body) ==
    /\ requests' = [requests EXCEPT ![i] =
           Append(@, [method |-> method, url |-> url, body |-> body])]
    /\ responses' = [responses EXCEPT ![i] = Append(@, Pending)]

\* The promise of the fetch invocation i is awaiting settles.
Settle(i, outcome) ==
    responses' = [responses EXCEPT ![i][Len(responses[i])] = outcome]

NoNavigation == ""

\* console.error(msg, error) called by invocation i
Log(i, msg) == console' = console \cup {<<i, msg>>}

\* Mutant of Fresh: a submit is ignored while any earlier one is unfinished
FreshWhenIdle(i) ==
    /\ handler[i] = "none"
    /\ \A j \in Invocations : j < i => handler[j] # "none"
    /\ \A j \in Invocations : pc[j] \in {"idle", "done"}

\* The next free invocation: invocations are numbered in event order.
Fresh(i) ==
    /\ handler[i] = "none"
    /\ \A j \in Invocations : j < i => handler[j] # "none"

-----------------------------------------------------------------------------
(* Campaign setup form, lines 45-71 *)

FormInputs == {[name |-> "spring", niche |-> "dentists", script |-> "hello"]}

CampaignFields == {"campaign-name", "target-niche", "script"}

\* The submit listener up to its first await (lines 48-61).
CampaignSubmit(i, formData) ==
    /\ "campaign-form" \in dom
    /\ Fresh(i)
    /\ handler' = [handler EXCEPT ![i] = "campaignForm"]
    /\ prevented' = prevented + 1
    /\ IF CampaignFields \subseteq dom
       THEN /\ Fetch(i, "POST", "/api/campaign/create", formData)
            /\ pc' = [pc EXCEPT ![i] = "fetch"]
            /\ UNCHANGED escaped
       ELSE \* getElementById(...) is null: the TypeError is outside the try
            /\ pc' = [pc EXCEPT ![i] = "done"]
            /\ escaped' = escaped \cup {<<"submit", i>>}
            /\ UNCHANGED <<requests, responses>>
    /\ UNCHANGED <<dom, search, location, campaignId, leadsText, leads,
                   console, textContent, statsPc, loaded, clicked, scrolled>>

\* await fetch(...) settles (line 57): resumes, or lands in the catch.
CreateFetchSettled(i, outcome) ==
    /\ handler[i] = "campaignForm"
    /\ pc[i] = "fetch"
    /\ Settle(i, outcome)
    /\ IF outcome = Rejected
       THEN /\ Log(i, "Error creating campaign:")
            /\ pc' = [pc EXCEPT ![i] = "done"]
       ELSE /\ pc' = [pc EXCEPT ![i] = "json"]
            /\ UNCHANGED console
    /\ UNCHANGED <<dom, search, location, handler, campaignId, leadsText,
                   leads, requests, escaped, dashVars>>

\* Mutant of CreateSucceeded: any status counts as success
CreateSucceededAnyStatus(data) == Get(data, "status") # Undefined

\* data.status === 'success' (line 64)
CreateSucceeded(data) == Get(data, "status") = Str("success")

\* '/add-leads?campaign=' + data.campaign_id (line 65)
AddLeadsUrl(data) == "/add-leads?campaign=" \o JsToString(Get(data, "campaign_id"))

\* await response.json() settles (lines 63-69).
CreateJsonSettled(i) ==
    /\ handler[i] = "campaignForm"
    /\ pc[i] = "json"
    /\ LET data == CurrentResponse(i).body
       IN IF data = NotJson \/ Throws(data)
          THEN /\ Log(i, "Error creating campaign:")
               /\ UNCHANGED location
          ELSE /\ location' = IF CreateSucceeded(data)
                              THEN AddLeadsUrl(data)
                              ELSE location
               /\ UNCHANGED console
    /\ pc' = [pc EXCEPT ![i] = "done"]
    /\ UNCHANGED <<dom, search, handler, campaignId, leadsText, leads,
                   requests, responses, escaped, dashVars>>

-----------------------------------------------------------------------------
(* Add leads form, lines 73-104, and launchCampaign, lines 106-118 *)

\* urlParams.get('campaign'): the parameter's value, or null when absent
UrlParamsGet == search

\* `/api/campaign/${campaignId}/launch` (line 108)
LaunchUrl(id) == "/api/campaign/" \o JsToString(id) \o "/launch"

\* Mutant of LeadsSubmit: the launch is started without awaiting the upload
LeadsSubmitNoAwait(i, text) ==
    /\ "leads-form" \in dom
    /\ "leads-csv" \in dom
    /\ Fresh(i)
    /\ handler' = [handler EXCEPT ![i] = "leadsForm"]
    /\ prevented' = prevented + 1
    /\ campaignId' = [campaignId EXCEPT ![i] = UrlParamsGet]
    /\ leadsText' = [leadsText EXCEPT ![i] = text]
    /\ leads' = [leads EXCEPT ![i] = ParseLeads(text)]
    /\ requests' = [requests EXCEPT ![i] =
           <<[method |-> "POST", url |-> "/api/leads/upload",
              body |-> [campaignId |-> UrlParamsGet, leads |-> ParseLeads(text)]],
             [method |-> "POST", url |-> LaunchUrl(UrlParamsGet),
              body |-> Undefined]>>]
    /\ responses' = [responses EXCEPT ![i] = <<Pending, Pending>>]
    /\ pc' = [pc EXCEPT ![i] = "launchFetch"]
    /\ UNCHANGED <<dom, search, location, console, escaped, textContent,
                   statsPc, loaded, clicked, scrolled>>

\* Mutant of UploadBody: the leads are collected in an array shared by all
\* submits and never emptied
UploadBodyAccumulating(i, text) ==
    [campaignId |-> UrlParamsGet,
     leads |-> (IF i > 1 /\ handler[i - 1] = "leadsForm" /\ requests[i - 1] # <<>>
                THEN requests[i - 1][1].body.leads
                ELSE <<>>)
               \o ParseLeads(text)]

\* { campaignId, leads } of line 93, from the locals of lines 80 and 84-87
UploadBody(i, text) == [campaignId |-> UrlParamsGet, leads |-> ParseLeads(text)]

\* Mutant of LeadsSubmit: nothing is sent without leads or without a campaign
LeadsSubmitGuarded(i, text) ==
    /\ "leads-form" \in dom
    /\ "leads-csv" \in dom
    /\ Fresh(i)
    /\ handler' = [handler EXCEPT ![i] = "leadsForm"]
    /\ prevented' = prevented + 1
    /\ campaignId' = [campaignId EXCEPT ![i] = UrlParamsGet]
    /\ leadsText' = [leadsText EXCEPT ![i] = text]
    /\ leads' = [leads EXCEPT ![i] = ParseLeads(text)]
    /\ IF ParseLeads(text) = <<>> \/ UrlParamsGet = Null
       THEN /\ pc' = [pc EXCEPT ![i] = "done"]
            /\ UNCHANGED <<requests, responses>>
       ELSE /\ Fetch(i, "POST", "/api/leads/upload", UploadBody(i, text))
            /\ pc' = [pc EXCEPT ![i] = "fetch"]
    /\ UNCHANGED <<dom, search, location, console, escaped, textContent,
                   statsPc, loaded, clicked, scrolled>>

\* The submit listener up to its first await (lines 77-94).
LeadsSubmit(i, text) ==
    /\ "leads-form" \in dom
    /\ Fresh(i)
    /\ handler' = [handler EXCEPT ![i] = "leadsForm"]
    /\ prevented' = prevented + 1
    /\ campaignId' = [campaignId EXCEPT ![i] = UrlParamsGet]
    /\ IF "leads-csv" \in dom
       THEN /\ leadsText' = [leadsText EXCEPT ![i] = text]
            /\ leads' = [leads EXCEPT ![i] = ParseLeads(text)]
            /\ Fetch(i, "POST", "/api/leads/upload", UploadBody(i, text))
            /\ pc' = [pc EXCEPT ![i] = "fetch"]
            /\ UNCHANGED escaped
       ELSE \* getElementById('leads-csv') is null: TypeError outside the try
            /\ pc' = [pc EXCEPT ![i] = "done"]
            /\ escaped' = escaped \cup {<<"submit", i>>}
            /\ UNCHANGED <<leadsText, leads, requests, responses>>
    /\ UNCHANGED <<dom, search, location, console, textContent, statsPc,
                   loaded, clicked, scrolled>>

\* Mutant of UploadFetchSettled: the await is outside the try, a rejection
\* leaves the listener as an unhandled exception
UploadFetchSettledUncaught(i, outcome) ==
    /\ handler[i] = "leadsForm"
    /\ pc[i] = "fetch"
    /\ Settle(i, outcome)
    /\ IF outcome = Rejected
       THEN /\ escaped' = escaped \cup {<<"submit", i>>}
            /\ pc' = [pc EXCEPT ![i] = "done"]
       ELSE /\ pc' = [pc EXCEPT ![i] = "json"]
            /\ UNCHANGED escaped
    /\ UNCHANGED <<dom, search, location, handler, campaignId, leadsText,
                   leads, requests, console, dashVars>>

\* await fetch('/api/leads/upload', ...) settles (line 90).
UploadFetchSettled(i, outcome) ==
    /\ handler[i] = "leadsForm"
    /\ pc[i] = "fetch"
    /\ Settle(i, outcome)
    /\ IF outcome = Rejected
       THEN /\ Log(i, "Error uploading leads:")
            /\ pc' = [pc EXCEPT ![i] = "done"]
       ELSE /\ pc' = [pc EXCEPT ![i] = "json"]
            /\ UNCHANGED console
    /\ UNCHANGED <<dom, search, location, handler, campaignId, leadsText,
                   leads, requests, escaped, dashVars>>

\* Mutant of UploadSucceeded: launches unless the status is "error"
UploadSucceededUnlessError(data) == Get(data, "status") # Str("error")

\* data.status === 'success' (line 97)
UploadSucceeded(data) == Get(data, "status") = Str("success")

\* Mutant of UploadJsonSettled: a campaign some submit has already launched
\* is not launched again
UploadJsonSettledOnce(i) ==
    /\ handler[i] = "leadsForm"
    /\ pc[i] = "json"
    /\ LET data == CurrentResponse(i).body
       IN IF data = NotJson \/ Throws(data)
          THEN /\ Log(i, "Error uploading leads:")
               /\ pc' = [pc EXCEPT ![i] = "done"]
               /\ UNCHANGED <<requests, responses>>
          ELSE IF /\ UploadSucceeded(data)
                  /\ \A j \in Invocations : Len(requests[j]) < 2
          THEN /\ Fetch(i, "POST", LaunchUrl(campaignId[i]), Undefined)
               /\ pc' = [pc EXCEPT ![i] = "launchFetch"]
               /\ UNCHANGED console
          ELSE /\ pc' = [pc EXCEPT ![i] = "done"]
               /\ UNCHANGED <<requests, responses, console>>
    /\ UNCHANGED <<dom, search, location, handler, campaignId, leadsText,
                   leads, escaped, dashVars>>

\* await response.json() settles (lines 96-102); on success the call of
\* launchCampaign runs up to its own first await (lines 107-110).
UploadJsonSettled(i) ==
    /\ handler[i] = "leadsForm"
    /\ pc[i] = "json"
    /\ LET data == CurrentResponse(i).body
       IN IF data = NotJson \/ Throws(data)
          THEN /\ Log(i, "Error uploading leads:")
               /\ pc' = [pc EXCEPT ![i] = "done"]
               /\ UNCHANGED <<requests, responses>>
          ELSE IF UploadSucceeded(data)
          THEN /\ Fetch(i, "POST", LaunchUrl(campaignId[i]), Undefined)
               /\ pc' = [pc EXCEPT ![i] = "launchFetch"]
               /\ UNCHANGED console
          ELSE /\ pc' = [pc EXCEPT ![i] = "done"]
               /\ UNCHANGED <<requests, responses, console>>
    /\ UNCHANGED <<dom, search, location, handler, campaignId, leadsText,
                   leads, escaped, dashVars>>

\* await fetch(`/api/campaign/${campaignId}/launch`) settles (line 108).
LaunchFetchSettled(i, outcome) ==
    /\ handler[i] = "leadsForm"
    /\ pc[i] = "launchFetch"
    /\ Settle(i, outcome)
    /\ IF outcome = Rejected
       THEN /\ Log(i, "Error launching campaign:")
            /\ pc' = [pc EXCEPT ![i] = "done"]
       ELSE /\ pc' = [pc EXCEPT ![i] = "launchJson"]
            /\ UNCHANGED console
    /\ UNCHANGED <<dom, search, location, handler, campaignId, leadsText,
                   leads, requests, escaped, dashVars>>

\* Mutant of LaunchStarted: "success" is taken for "started" as well
LaunchStartedOrSuccess(data) ==
    Get(data, "status") \in {Str("started"), Str("success")}

\* data.status === 'started' (line 112)
LaunchStarted(data) == Get(data, "status") = Str("started")

\* await response.json() settles in launchCampaign (lines 111-117); the
\* awaiting submit listener then runs to its end (line 98).
LaunchJsonSettled(i) ==
    /\ handler[i] = "leadsForm"
    /\ pc[i] = "launchJson"
    /\ LET data == CurrentResponse(i).body
       IN IF data = NotJson \/ Throws(data)
          THEN /\ Log(i, "Error launching campaign:")
               /\ UNCHANGED location
          ELSE /\ location' = IF LaunchStarted(data) THEN "/dashboard" ELSE location
               /\ UNCHANGED console
    /\ pc' = [pc EXCEPT ![i] = "done"]
    /\ UNCHANGED <<dom, search, handler, campaignId, leadsText, leads,
                   requests, responses, escaped, dashVars>>

-----------------------------------------------------------------------------
(* fetchDashboardStats, lines 30-42 *)

StatIds == {"total-calls", "hot-leads", "booked-calls", "conversion-rate"}

\* Mutant of StatsBindings: hot_leads and booked_calls change places
StatsBindingsSwapped ==
    <<[id |-> "total-calls",     field |-> "total_calls"],
      [id |-> "hot-leads",       field |-> "booked_calls"],
      [id |-> "booked-calls",    field |-> "hot_leads"],
      [id |-> "conversion-rate", field |-> "conversion_rate"]>>

\* The four assignments of lines 35-38, in statement order.
StatsBindings ==
    <<[id |-> "total-calls",     field |-> "total_calls"],
      [id |-> "hot-leads",       field |-> "hot_leads"],
      [id |-> "booked-calls",    field |-> "booked_calls"],
      [id |-> "conversion-rate", field |-> "conversion_rate"]>>

\* Mutant of SetTextContent: undefined and null are written as their names
SetTextContentNamed(v) == JsToString(v)

\* The textContent setter: null and undefined clear the text, every other
\* value is converted to its string.
SetTextContent(v) ==
    IF v.t \in {"null", "undefined"} THEN "" ELSE JsToString(v)

\* Statements k..4 of lines 35-38 applied to text; a statement throws a
\* TypeError when its element is missing or stats is null, and the
\* statements after it are skipped.
RECURSIVE WriteStats(_, _, _)
WriteStats(text, stats, k) ==
    IF k > Len(StatsBindings)
    THEN [text |-> text, threw |-> FALSE]
    ELSE IF StatsBindings[k].id \notin dom \/ Throws(stats)
    THEN [text |-> text, threw |-> TRUE]
    ELSE WriteStats(
             [text EXCEPT ![StatsBindings[k].id] =
                  SetTextContent(Get(stats, StatsBindings[k].field))],
             stats, k + 1)

FullStats ==
    [total_calls |-> Num(10), hot_leads |-> Num(2), booked_calls |-> Num(1),
     conversion_rate |-> Str("20%")]

\* FullStats without field k
Without(k) == [f \in (DOMAIN FullStats) \ {k} |-> FullStats[f]]

StatsBodies ==
    {NotJson, Null, Num(5), Obj(NoFields), Obj(FullStats),
     Obj([FullStats EXCEPT !.hot_leads = Null]),
     Obj([FullStats EXCEPT !.total_calls = Str("")])}
    \cup {Obj(Without(k)) : k \in DOMAIN FullStats}

\* fetchDashboardStats() up to its first await (lines 31-32).
FetchDashboardStats ==
    /\ Fetch(Stats, "GET", "/api/user/stats", Undefined)
    /\ statsPc' = "fetch"

\* Mutant of StatsFetchSettled: the await is outside the try, a rejection
\* leaves fetchDashboardStats as an unhandled exception
StatsFetchSettledUncaught(outcome) ==
    /\ statsPc = "fetch"
    /\ Settle(Stats, outcome)
    /\ IF outcome = Rejected
       THEN /\ escaped' = escaped \cup {<<"stats", Stats>>}
            /\ statsPc' = "done"
       ELSE /\ statsPc' = "json"
            /\ UNCHANGED escaped
    /\ UNCHANGED <<dom, search, location, flowVars, requests, console,
                   textContent, loaded, prevented, clicked, scrolled>>

\* Mutant of StatsFetchSettled: a rejected fetch is tried again
StatsFetchSettledRetrying(outcome) ==
    /\ statsPc = "fetch"
    /\ IF outcome = Rejected
       THEN /\ Log(Stats, "Error fetching stats:")
            /\ requests' = [requests EXCEPT ![Stats] =
                   Append(@, [method |-> "GET", url |-> "/api/user/stats",
                              body |-> Undefined])]
            /\ responses' = [responses EXCEPT ![Stats] =
                   Append([@ EXCEPT ![Len(@)] = Rejected], Pending)]
            /\ statsPc' = IF Len(requests[Stats]) < 2 THEN "fetch" ELSE "done"
       ELSE /\ Settle(Stats, outcome)
            /\ statsPc' = "json"
            /\ UNCHANGED <<console, requests>>
    /\ UNCHANGED <<dom, search, location, flowVars, escaped,
                   textContent, loaded, prevented, clicked, scrolled>>

\* await fetch('/api/user/stats') settles (line 32).
StatsFetchSettled(outcome) ==
    /\ statsPc = "fetch"
    /\ Settle(Stats, outcome)
    /\ IF outcome = Rejected
       THEN /\ Log(Stats, "Error fetching stats:")
            /\ statsPc' = "done"
       ELSE /\ statsPc' = "json"
            /\ UNCHANGED console
    /\ UNCHANGED <<dom, search, location, flowVars, requests, escaped,
                   textContent, loaded, prevented, clicked, scrolled>>

\* await response.json() settles (lines 33-41).
StatsJsonSettled ==
    /\ statsPc = "json"
    /\ LET stats == CurrentResponse(Stats).body
       IN IF stats = NotJson
          THEN /\ Log(Stats, "Error fetching stats:")
               /\ UNCHANGED textContent
          ELSE LET w == WriteStats(textContent, stats, 1)
               IN /\ textContent' = w.text
                  /\ IF w.threw
                     THEN Log(Stats, "Error fetching stats:")
                     ELSE UNCHANGED console
    /\ statsPc' = "done"
    /\ UNCHANGED <<dom, search, location, flowVars, requests, responses,
                   escaped, loaded, prevented, clicked, scrolled>>

-----------------------------------------------------------------------------
(* DOMContentLoaded listener, lines 2-28 *)

\* Lines 3-27: the click listeners are bound, and the statistics are
\* fetched when the page has a .dashboard element.
DOMContentLoaded ==
    /\ ~loaded
    /\ loaded' = TRUE
    /\ IF ".dashboard" \in dom
       THEN FetchDashboardStats
       ELSE UNCHANGED <<requests, responses, statsPc>>
    /\ UNCHANGED <<dom, search, location, flowVars, console, escaped,
                   textContent, prevented, clicked, scrolled>>

\* Click on the checkout button (lines 6-9).
CheckoutClick ==
    /\ loaded
    /\ "checkout-button" \in dom
    /\ prevented < MaxClicks
    /\ prevented' = prevented + 1
    /\ location' = "/webhook/stripe-test"
    /\ UNCHANGED <<dom, search, flowVars, requests, responses, console,
                   escaped, textContent, statsPc, loaded, clicked, scrolled>>

\* href attributes of the a[href^="#"] elements of the page
Hrefs ==
    {<<"#">>, <<"#", "t", "o", "p">>, <<"#", "f", "a", "q">>,
     <<"#", "2", "n", "d">>}

DigitChars == {"0", "1", "2", "3", "4", "5", "6", "7", "8", "9"}
LetterChars == {"a", "d", "f", "n", "o", "p", "q", "t"}

\* Whether sel is an id selector: "#" followed by a CSS identifier, which
\* is not empty and does not start with a digit.
ValidSelector(sel) ==
    /\ Len(sel) >= 2
    /\ sel[1] = "#"
    /\ sel[2] \in LetterChars \cup {"_"}
    /\ \A k \in 3..Len(sel) : sel[k] \in LetterChars \cup DigitChars \cup {"_", "-"}

RECURSIVE Concat(_)
Concat(chars) == IF chars = <<>> THEN "" ELSE Head(chars) \o Concat(Tail(chars))

SyntaxError == [t |-> "SyntaxError"]

\* document.querySelector(sel) for the selectors above: throws on a string
\* that is no selector, else the element with that id, or null.
QuerySelector(sel) ==
    IF ~ValidSelector(sel) THEN SyntaxError
    ELSE IF Concat(Tail(sel)) \in dom THEN Str(Concat(Tail(sel)))
    ELSE Null

\* Click on an anchor whose href starts with "#" (lines 20-26).
AnchorClick(href) ==
    /\ loaded
    /\ prevented < MaxClicks
    /\ prevented' = prevented + 1
    /\ clicked' = Append(clicked, href)
    /\ LET target == QuerySelector(href)
       IN IF target = SyntaxError
          THEN /\ escaped' = escaped \cup {<<"click", Len(clicked) + 1>>}
               /\ scrolled' = Append(scrolled, Null)
          ELSE /\ scrolled' = Append(scrolled, target)
               /\ UNCHANGED escaped
    /\ UNCHANGED <<dom, search, location, flowVars, requests, responses,
                   console, textContent, statsPc, loaded>>

-----------------------------------------------------------------------------
(* Specifications *)

FormIds == {"campaign-form", "leads-form", "leads-csv"} \cup CampaignFields
PageIds == {".dashboard", "checkout-button", "top"} \cup StatIds

InitState ==
    /\ location = NoNavigation
    /\ handler = [i \in Invocations |-> "none"]
    /\ pc = [i \in Invocations |-> "idle"]
    /\ campaignId = [i \in Invocations |-> Undefined]
    /\ leadsText = [i \in Invocations |-> <<>>]
    /\ leads = [i \in Invocations |-> <<>>]
    /\ requests = [i \in Callers |-> <<>>]
    /\ responses = [i \in Callers |-> <<>>]
    /\ console = {}
    /\ escaped = {}
    /\ textContent = [e \in StatIds |-> "--"]
    /\ statsPc = "idle"
    /\ loaded = FALSE
    /\ prevented = 0
    /\ clicked = <<>>
    /\ scrolled = <<>>

\* The form flows: a page with both forms, or with one form element missing.
Init ==
    /\ dom \in {(PageIds \cup FormIds) \ M :
                   M \in {{}} \cup {{e} : e \in FormIds \ {"target-niche", "script"}}}
    /\ search \in {Null, Str("c1")}
    /\ InitState

\* Texts typed into the leads textarea in the form flows
FlowTexts == {<<>>, <<"b", ",", "a", "\n", "a", ",", " ", "b">>}

Next ==
    \/ \E i \in Invocations, d \in FormInputs : CampaignSubmit(i, d)
    \/ \E i \in Invocations, o \in Outcomes(CreateBodies) : CreateFetchSettled(i, o)
    \/ \E i \in Invocations : CreateJsonSettled(i)
    \/ \E i \in Invocations, text \in FlowTexts : LeadsSubmit(i, text)
    \/ \E i \in Invocations, o \in Outcomes(UploadBodies) : UploadFetchSettled(i, o)
    \/ \E i \in Invocations : UploadJsonSettled(i)
    \/ \E i \in Invocations, o \in Outcomes(LaunchBodies) : LaunchFetchSettled(i, o)
    \/ \E i \in Invocations : LaunchJsonSettled(i)

Spec == Init /\ [][Next]_vars

\* Lead parsing: one submit of the leads form with any text up to MaxLen.
InitParse ==
    /\ dom = PageIds \cup FormIds
    /\ search = Str("c1")
    /\ InitState

NextParse == handler[1] = "none" /\ \E text \in Texts : LeadsSubmit(1, text)

SpecParse == InitParse /\ [][NextParse]_vars

\* Page load: the DOMContentLoaded listener and what it starts and binds.
InitPage ==
    /\ dom \in {FormIds \cup S : S \in SUBSET PageIds}
    /\ search = Null
    /\ InitState

NextPage ==
    \/ DOMContentLoaded
    \/ \E o \in Outcomes(StatsBodies) : StatsFetchSettled(o)
    \/ StatsJsonSettled
    \/ CheckoutClick
    \/ \E href \in Hrefs : AnchorClick(href)

SpecPage == InitPage /\ [][NextPage]_vars

-----------------------------------------------------------------------------
(* Lead parsing, stated on the characters of the text *)

\* Positions that bound a line: before the text, each newline, after the text
LineBounds(text) ==
    {0, Len(text) + 1} \cup {p \in 1..Len(text) : text[p] = "\n"}

Least(S) == CHOOSE x \in S : \A y \in S : x <= y
Greatest(S) == CHOOSE x \in S : \A y \in S : y <= x

\* The lines of text, each as the pair of bounds around it: a bound and the
\* next bound after it
LinesOf(text) ==
    LET bounds == LineBounds(text)
    IN {<<a, Least({p \in bounds : p > a})>> : a \in bounds \ {Len(text) + 1}}

\* Commas of the line between bounds a and b that lie before position p
CommasBefore(text, a, p) == {q \in (a + 1)..(p - 1) : text[q] = ","}

\* Token n (counted from 0) of the line between a and b has a character
\* that is neither white space nor a comma: it is non-empty after trimming.
TokenNonEmpty(text, a, b, n) ==
    \E p \in (a + 1)..(b - 1) :
        /\ text[p] \notin WhiteSpace \cup {","}
        /\ Cardinality(CommasBefore(text, a, p)) = n

LineIsKept(text, ab) ==
    /\ TokenNonEmpty(text, ab[1], ab[2], 0)
    /\ TokenNonEmpty(text, ab[1], ab[2], 1)

\* The leads of the upload request invocation i sent
SentLeads(i) == requests[i][1].body.leads

\* C1: the lead list sent by a leads-form submit has at most as many entries
\* as the text has newline-separated lines, and exactly one entry for each
\* line whose first two comma-split tokens are both non-empty after trimming.
C1_LeadsAreTheKeptLines ==
    \A i \in Invocations :
        (handler[i] = "leadsForm" /\ requests[i] # <<>>) =>
            /\ Len(SentLeads(i)) <= Cardinality(LinesOf(leadsText[i]))
            /\ Len(SentLeads(i)) =
                   Cardinality({ab \in LinesOf(leadsText[i]) :
                                    LineIsKept(leadsText[i], ab)})

\* A text of three lines of which one is kept has been submitted.
C1_Witness ==
    \E i \in Invocations :
        /\ handler[i] = "leadsForm"
        /\ requests[i] # <<>>
        /\ Cardinality(LinesOf(leadsText[i])) = 3
        /\ Len(SentLeads(i)) = 1

-----------------------------------------------------------------------------
(* The form flows *)

\* The body of the response invocation i is parsing, read as the server
\* sent it: the value of its status field, "" when it has none.
StatusOf(body) ==
    IF body.t = "object" /\ "status" \in DOMAIN body.f THEN body.f.status.s ELSE ""

\* Invocation i of listener h takes the step that parses a response body.
Parses(i, h, at) == handler[i] = h /\ pc[i] = at /\ pc'[i] # at

\* The page address a create response with status "success" leads to
AddLeadsPage(body) ==
    IF "campaign_id" \notin DOMAIN body.f THEN "/add-leads?campaign=undefined"
    ELSE IF body.f.campaign_id = Str("42") THEN "/add-leads?campaign=42"
    ELSE IF body.f.campaign_id = Num(17) THEN "/add-leads?campaign=17"
    ELSE "?"

\* C2: when the create-campaign listener parses a response whose status is
\* "success", the location becomes /add-leads?campaign= followed by the
\* response's campaign_id; on every other parsed response it is unchanged.
C2_CreateNavigatesOnSuccessOnly ==
    [][\A i \in Invocations :
          Parses(i, "campaignForm", "json") =>
              LET body == CurrentResponse(i).body
              IN IF StatusOf(body) = "success"
                 THEN location' = AddLeadsPage(body)
                 ELSE location' = location]_vars

\* A create response {status: "success", campaign_id: "42"} has been handled.
C2_Witness ==
    \E i \in Invocations :
        /\ handler[i] = "campaignForm"
        /\ pc[i] = "done"
        /\ responses[i] =
               <<Arrived(Obj([status |-> Str("success"), campaign_id |-> Str("42")]))>>
        /\ location = "/add-leads?campaign=42"

LaunchUrls == {"/api/campaign/c1/launch", "/api/campaign/null/launch"}

\* C6: every launch request follows, in its own submit, the upload request,
\* and that upload request has been answered with status "success".
C6_LaunchOnlyAfterUploadSuccess ==
    \A i \in Invocations : \A k \in DOMAIN requests[i] :
        requests[i][k].url \in LaunchUrls =>
            /\ k = 2
            /\ requests[i][1].url = "/api/leads/upload"
            /\ responses[i][1].state = "arrived"
            /\ StatusOf(responses[i][1].body) = "success"

\* A launch request has been issued.
C6_Witness ==
    \E i \in Invocations :
        /\ Len(requests[i]) = 2
        /\ requests[i][2].url = "/api/campaign/c1/launch"

\* Invocation i takes the step in which its launch fetch settles or its
\* launch response is parsed.
LaunchStep(i) ==
    /\ handler[i] = "leadsForm"
    /\ pc[i] \in {"launchFetch", "launchJson"}
    /\ pc'[i] # pc[i]

\* C7: the location becomes /dashboard only in the step that parses a launch
\* response with status "started"; a launch that is rejected, unparseable or
\* answered otherwise leaves the location as it was and ends the invocation,
\* and an invocation that has ended issues no request.
C7_DashboardOnlyWhenStarted ==
    [][/\ (location' = "/dashboard" /\ location # "/dashboard") =>
              \E i \in Invocations :
                  /\ Parses(i, "leadsForm", "launchJson")
                  /\ StatusOf(CurrentResponse(i).body) = "started"
       /\ \A i \in Invocations :
              /\ Parses(i, "leadsForm", "launchJson") =>
                     /\ pc'[i] = "done"
                     /\ requests' = requests
                     /\ IF StatusOf(CurrentResponse(i).body) = "started"
                        THEN location' = "/dashboard"
                        ELSE location' = location
              /\ (LaunchStep(i) /\ pc[i] = "launchFetch"
                    /\ responses'[i][2] = Rejected) =>
                     /\ pc'[i] = "done"
                     /\ requests' = requests
                     /\ location' = location
              /\ pc[i] = "done" => (pc'[i] = "done" /\ requests'[i] = requests[i])
      ]_vars

\* One launch was answered "started" and the page went to the dashboard,
\* another was answered otherwise.
C7_Witness ==
    /\ location = "/dashboard"
    /\ \E i, j \in Invocations :
          /\ pc[i] = "done" /\ pc[j] = "done"
          /\ Len(responses[i]) = 2 /\ Len(responses[j]) = 2
          /\ responses[i][2] = Arrived(Obj([status |-> Str("started")]))
          /\ responses[j][2] = Arrived(Obj([status |-> Str("success")]))

\* The promise of the fetch invocation i is awaiting is rejected in this step.
FetchRejects(i) ==
    /\ pc[i] \in {"fetch", "launchFetch"}
    /\ CurrentResponse(i) = Pending
    /\ responses'[i][Len(responses[i])] = Rejected

\* Invocation i parses a response body in this step.
ParsesBody(i) == pc[i] \in {"json", "launchJson"} /\ pc'[i] # pc[i]

\* The status the step that invocation i is at takes for success
ExpectedStatus(i) == IF pc[i] = "launchJson" THEN "started" ELSE "success"

\* C8: in the create, upload and launch steps alike, a rejected request, a
\* body that is not JSON and a parsed body whose status is absent or not the
\* expected one end the invocation with no navigation, no further request and
\* no escaping exception; the rejection and the unparseable body are caught
\* by the handler's catch block, which logs them.
C8_FailuresEndTheInvocationQuietly ==
    [][\A i \in Invocations :
          LET body == CurrentResponse(i).body
              thrown == FetchRejects(i) \/ (ParsesBody(i) /\ body = NotJson)
              refused == /\ ParsesBody(i)
                         /\ body # NotJson
                         /\ StatusOf(body) # ExpectedStatus(i)
          IN /\ (thrown \/ refused) =>
                    /\ pc'[i] = "done"
                    /\ location' = location
                    /\ requests' = requests
                    /\ escaped' = escaped
             /\ thrown => \E m \in {"Error creating campaign:",
                                     "Error uploading leads:",
                                     "Error launching campaign:"} :
                              <<i, m>> \in console'
      ]_vars

\* A create response that is not JSON and a rejected launch have both been
\* handled, and nothing has navigated or escaped.
C8_Witness ==
    /\ location = NoNavigation
    /\ escaped = {}
    /\ \E i, j \in Invocations :
          /\ pc[i] = "done" /\ pc[j] = "done"
          /\ handler[i] = "campaignForm"
          /\ responses[i] = <<Arrived(NotJson)>>
          /\ <<i, "Error creating campaign:">> \in console
          /\ Len(responses[j]) = 2
          /\ responses[j][2] = Rejected
          /\ <<j, "Error launching campaign:">> \in console

\* The requests of caller i that are in flight: issued and not yet settled
InFlight(i) == {k \in DOMAIN responses[i] : responses[i][k] = Pending}

\* C9: no handler invocation ever has more than one request in flight.
C9_OneRequestInFlightPerInvocation ==
    \A i \in Callers : Cardinality(InFlight(i)) <= 1

\* A launch request is in flight, the upload before it has been answered.
C9_Witness ==
    \E i \in Invocations :
        /\ Len(requests[i]) = 2
        /\ InFlight(i) = {2}

-----------------------------------------------------------------------------
(* The dashboard statistics *)

\* Element id and response field of each dashboard figure
Figures ==
    {<<"total-calls", "total_calls">>, <<"hot-leads", "hot_leads">>,
     <<"booked-calls", "booked_calls">>, <<"conversion-rate", "conversion_rate">>}

\* The text a string or number of the response reads as
Shown(v) ==
    IF v.t = "string" THEN v.s
    ELSE IF v.t = "number"
    THEN CASE v.n = 10 -> "10" [] v.n = 2 -> "2" [] v.n = 1 -> "1" [] OTHER -> "?"
    ELSE "?"

\* The text the dashboard elements have when the script starts
TextBefore == [e \in StatIds |-> "--"]

\* fetchDashboardStats has completed on a response with body b.
StatsDoneOn(b) == statsPc = "done" /\ responses[Stats] = <<Arrived(b)>>

\* b is a JSON object
IsObject(b) == b.t = "object"

\* The figures the JSON object b has no field for
MissingIn(b) == {g \in Figures : g[2] \notin DOMAIN b.f}

\* C3: after fetchDashboardStats has completed on a JSON response that has
\* the four fields as strings or numbers, each of the four elements shows
\* exactly the value of its field.
C3_StatsShownAsReceived ==
    \A b \in StatsBodies :
        (/\ StatsDoneOn(b)
         /\ IsObject(b)
         /\ MissingIn(b) = {}
         /\ \A g \in Figures : b.f[g[2]].t \in {"string", "number"}
         /\ StatIds \subseteq dom)
        => \A g \in Figures : textContent[g[1]] = Shown(b.f[g[2]])

\* The response {total_calls: 10, hot_leads: 2, booked_calls: 1,
\* conversion_rate: "20%"} has been written to the page.
C3_Witness ==
    /\ StatsDoneOn(Obj(FullStats))
    /\ StatIds \subseteq dom
    /\ textContent["total-calls"] = "10"
    /\ textContent["conversion-rate"] = "20%"

\* C4: after a stats fetch that was rejected, the four elements have the
\* text they had before the call and no exception has left
\* fetchDashboardStats.
C4_RejectedStatsFetchChangesNothing ==
    (statsPc = "done" /\ responses[Stats] = <<Rejected>>) =>
        /\ textContent = TextBefore
        /\ \A x \in escaped : x[1] # "stats"

\* A rejected stats fetch has been caught and logged on a full dashboard.
C4_Witness ==
    /\ statsPc = "done"
    /\ responses[Stats] = <<Rejected>>
    /\ StatIds \subseteq dom
    /\ <<Stats, "Error fetching stats:">> \in console

\* C5 as stated, on a page that has the four elements: after
\* fetchDashboardStats has completed on a body that is not JSON, or on a JSON
\* object lacking one or more of the four fields, none of the four elements
\* has changed.
C5_AsStated ==
    \A b \in StatsBodies :
        (/\ StatsDoneOn(b)
         /\ StatIds \subseteq dom
         /\ (b = NotJson \/ (IsObject(b) /\ MissingIn(b) # {})))
        => textContent = TextBefore

\* C5: a body that is not JSON is logged and changes none of the four
\* elements. A JSON object lacking some of the four fields is no failure:
\* with the four elements present nothing is logged and every element is
\* overwritten, by the value of its field, or by the empty text when the
\* field is missing.
C5_NonJsonUntouchedMissingFieldsBlank ==
    \A b \in StatsBodies :
        /\ (StatsDoneOn(b) /\ b = NotJson) =>
               /\ textContent = TextBefore
               /\ <<Stats, "Error fetching stats:">> \in console
        /\ (/\ StatsDoneOn(b)
            /\ IsObject(b)
            /\ MissingIn(b) # {}
            /\ StatIds \subseteq dom)
           => /\ console = {}
              /\ \A g \in Figures :
                     textContent[g[1]] =
                         IF g \in MissingIn(b) THEN "" ELSE Shown(b.f[g[2]])

\* A response without hot_leads has blanked that element and filled the rest.
C5_Witness ==
    /\ StatsDoneOn(Obj(Without("hot_leads")))
    /\ StatIds \subseteq dom
    /\ textContent["hot-leads"] = ""
    /\ textContent["booked-calls"] = "1"

-----------------------------------------------------------------------------
(* Same-page anchors *)

\* The element the href of click k names is in the document.
TargetExists(k) == Concat(Tail(clicked[k])) \in dom

\* C10: every anchor click has its default action suppressed, scrolls if and
\* only if the element its href names exists, and when there is no such
\* element scrolls nowhere and raises no error.
C10_AnchorClickNeverFails ==
    /\ prevented >= Len(clicked)
    /\ \A k \in DOMAIN clicked :
          /\ (scrolled[k] # Null) <=> TargetExists(k)
          /\ ~TargetExists(k) =>
                 (scrolled[k] = Null /\ <<"click", k>> \notin escaped)

-----------------------------------------------------------------------------
(* Lead parsing: which text ends up in which field *)

\* The commas of the line between bounds ab[1] and ab[2]
CommasOf(text, ab) == {q \in (ab[1] + 1)..(ab[2] - 1) : text[q] = ","}

\* The text strictly between positions lo and hi, without the white space at
\* its two ends
Between(text, lo, hi) ==
    LET solid == {p \in (lo + 1)..(hi - 1) : text[p] \notin WhiteSpace}
    IN IF solid = {} THEN <<>> ELSE SubSeq(text, Least(solid), Greatest(solid))

\* Where the second token of a line with a comma ends: at the second comma,
\* or at the end of the line
SecondTokenEnd(text, ab) ==
    LET later == {q \in CommasOf(text, ab) : q > Least(CommasOf(text, ab))}
    IN IF later = {} THEN ab[2] ELSE Least(later)

\* The lead a kept line stands for
LeadOf(text, ab) ==
    [name  |-> Str(Between(text, ab[1], Least(CommasOf(text, ab)))),
     phone |-> Str(Between(text, Least(CommasOf(text, ab)),
                           SecondTokenEnd(text, ab)))]

KeptLines(text) == {ab \in LinesOf(text) : LineIsKept(text, ab)}

\* The k-th line of the set kept of lines, in text order
KeptLine(kept, k) ==
    CHOOSE ab \in kept : Cardinality({x \in kept : x[1] < ab[1]}) = k - 1

\* Invocation i has sent the upload request of a leads-form submit.
Uploaded(i) == handler[i] = "leadsForm" /\ requests[i] # <<>>

\* C11: the leads sent are at most as many as the lines that contain a
\* comma, so a line without a comma never produces a lead.
C11_NoCommaNoLead ==
    \A i \in Invocations :
        Uploaded(i) =>
            Len(SentLeads(i)) <=
                Cardinality({ab \in LinesOf(leadsText[i]) :
                                 CommasOf(leadsText[i], ab) # {}})

\* A text with a kept line and a line of letters without a comma was sent.
C11_Witness ==
    \E i \in Invocations :
        /\ Uploaded(i)
        /\ Len(SentLeads(i)) = 1
        /\ \E ab \in LinesOf(leadsText[i]) :
              /\ CommasOf(leadsText[i], ab) = {}
              /\ \E p \in (ab[1] + 1)..(ab[2] - 1) : leadsText[i][p] \in {"a", "b"}

\* C12: a kept line with two or more commas gives the lead whose name is the
\* trimmed text before the first comma and whose phone is the trimmed text
\* between the first and the second comma; what follows the second comma is
\* in no field, and the line is kept on its first two tokens alone.
C12_OnlyFirstTwoTokensMatter ==
    \A i \in Invocations :
        Uploaded(i) =>
            LET text == leadsText[i]
                kept == KeptLines(text)
            IN /\ Len(SentLeads(i)) = Cardinality(kept)
               /\ \A k \in 1..Cardinality(kept) :
                      LET ab == KeptLine(kept, k)
                          commas == CommasOf(text, ab)
                      IN Cardinality(commas) >= 2 =>
                             /\ SentLeads(i)[k].name =
                                    Str(Between(text, ab[1], Least(commas)))
                             /\ SentLeads(i)[k].phone =
                                    Str(Between(text, Least(commas),
                                                Least(commas \ {Least(commas)})))

\* A line with two commas and a letter after the second one was kept.
C12_Witness ==
    \E i \in Invocations :
        /\ Uploaded(i)
        /\ Len(SentLeads(i)) = 1
        /\ \E ab \in KeptLines(leadsText[i]) :
              /\ Cardinality(CommasOf(leadsText[i], ab)) = 2
              /\ leadsText[i][ab[2] - 1] \in {"a", "b"}
              /\ leadsText[i][ab[2] - 2] = ","

\* C13: the leads sent are the kept lines of the text, one lead for each, in
\* the order of the lines, equal lines included.
C13_LeadsInInputOrder ==
    \A i \in Invocations :
        Uploaded(i) =>
            LET kept == KeptLines(leadsText[i])
            IN SentLeads(i) =
                   [k \in 1..Cardinality(kept) |->
                        LeadOf(leadsText[i], KeptLine(kept, k))]

\* Two kept lines were sent, the first with another name than the second.
C13_Witness ==
    \E i \in Invocations :
        /\ Uploaded(i)
        /\ Len(SentLeads(i)) = 2
        /\ SentLeads(i)[1].name # SentLeads(i)[2].name

-----------------------------------------------------------------------------
(* Repeated and concurrent submits *)

\* Invocation i is the one the next submit event starts.
NextToStart(i) ==
    /\ handler[i] = "none"
    /\ \A j \in Invocations : j < i => handler[j] # "none"

\* C14: a submit is never held back by requests still in flight: whenever a
\* form is on the page, the next submit of it can happen and sends its own
\* request; and a request once sent is in flight exactly until its own
\* invocation resumes, nothing removes or settles it otherwise.
C14_RepeatedSubmitsNotSuppressed ==
    /\ \A i \in Invocations :
          NextToStart(i) =>
              /\ ("campaign-form" \in dom /\ CampaignFields \subseteq dom) =>
                     ENABLED (\E d \in FormInputs :
                                  CampaignSubmit(i, d) /\ Len(requests'[i]) = 1)
              /\ ("leads-form" \in dom /\ "leads-csv" \in dom) =>
                     ENABLED (\E text \in FlowTexts :
                                  LeadsSubmit(i, text) /\ Len(requests'[i]) = 1)
    /\ \A i \in Invocations :
          /\ Len(responses[i]) = Len(requests[i])
          /\ (InFlight(i) # {}) <=> (pc[i] \in {"fetch", "launchFetch"})

\* Two submits of the leads form have their upload requests in flight at once.
C14_Witness ==
    \E i, j \in Invocations :
        /\ i # j
        /\ handler[i] = "leadsForm" /\ handler[j] = "leadsForm"
        /\ InFlight(i) = {1} /\ InFlight(j) = {1}
        /\ Len(requests[i]) = 1 /\ Len(requests[j]) = 1

\* The leads each text of FlowTexts stands for
LeadsTyped(text) ==
    IF text = <<>> THEN <<>>
    ELSE <<[name |-> Str(<<"b">>), phone |-> Str(<<"a">>)],
           [name |-> Str(<<"a">>), phone |-> Str(<<"b">>)]>>

\* The launch address of a campaign identifier read from the query string
LaunchAddress(id) ==
    IF id = Null THEN "/api/campaign/null/launch"
    ELSE IF id = Str("c1") THEN "/api/campaign/c1/launch"
    ELSE "?"

\* C15: whatever other submits run meanwhile, the body of a submit's upload
\* request holds the campaign identifier and the leads of the text read when
\* that submit started, and its launch request names the campaign
\* identifier its upload request carried.
C15_RequestsBuiltFromOwnSubmit ==
    \A i \in Invocations :
        Uploaded(i) =>
            /\ requests[i][1].body.campaignId = search
            /\ requests[i][1].body.campaignId = campaignId[i]
            /\ requests[i][1].body.leads = LeadsTyped(leadsText[i])
            /\ Len(requests[i]) >= 2 =>
                   requests[i][2].url =
                       LaunchAddress(requests[i][1].body.campaignId)

\* Two submits with different texts overlap: the second was sent while the
\* first was in flight, and the first has gone on to its launch request.
C15_Witness ==
    \E i, j \in Invocations :
        /\ Uploaded(i) /\ Uploaded(j)
        /\ leadsText[i] # <<>>
        /\ leadsText[j] = <<>>
        /\ Len(requests[i]) = 2
        /\ InFlight(j) = {1}

\* The launch requests issued so far, as (invocation, request number)
LaunchRequests ==
    {ik \in Invocations \X {1, 2} :
        /\ ik[2] \in DOMAIN requests[ik[1]]
        /\ requests[ik[1]][ik[2]].url \in LaunchUrls}

\* The submits whose upload response has been read and has status "success"
UploadsSucceeded ==
    {i \in Invocations :
        /\ Uploaded(i)
        /\ pc[i] \notin {"fetch", "json"}
        /\ responses[i][1].state = "arrived"
        /\ StatusOf(responses[i][1].body) = "success"}

\* C17: the launch requests issued are as many as the upload responses read
\* with status "success", one launch for each of them.
C17_OneLaunchPerSuccessfulUpload ==
    /\ Cardinality(LaunchRequests) = Cardinality(UploadsSucceeded)
    /\ \A i \in UploadsSucceeded : <<i, 2>> \in LaunchRequests

\* Two submits of the leads form both succeeded and the same campaign has
\* been launched twice.
C17_Witness ==
    \E i, j \in Invocations :
        /\ i # j
        /\ {<<i, 2>>, <<j, 2>>} \subseteq LaunchRequests
        /\ requests[i][2].url = requests[j][2].url

\* The upload requests invocation i has issued
UploadRequests(i) ==
    {k \in DOMAIN requests[i] : requests[i][k].url = "/api/leads/upload"}

\* C18: on a page with the leads textarea, every leads-form submit has issued
\* exactly one upload request, a POST with the campaign identifier of the
\* query string (null when there is none) and all the parsed leads (none
\* when the text has none); once its response is read with status "success"
\* the launch request follows, for "null" when there is no identifier.
C18_UploadIsUnguarded ==
    \A i \in Invocations :
        (handler[i] = "leadsForm" /\ "leads-csv" \in dom) =>
            /\ UploadRequests(i) = {1}
            /\ requests[i][1] =
                   [method |-> "POST", url |-> "/api/leads/upload",
                    body |-> [campaignId |-> search,
                              leads |-> LeadsTyped(leadsText[i])]]
            /\ i \in UploadsSucceeded =>
                   /\ Len(requests[i]) = 2
                   /\ requests[i][2].method = "POST"
                   /\ requests[i][2].url = LaunchAddress(search)

\* Without a campaign parameter and without leads, the upload was sent and
\* its success was followed by the launch of campaign "null".
C18_Witness ==
    \E i \in Invocations :
        /\ search = Null
        /\ Uploaded(i)
        /\ requests[i][1].body.leads = <<>>
        /\ requests[i][1].body.campaignId = Null
        /\ Len(requests[i]) = 2
        /\ requests[i][2].url = "/api/campaign/null/launch"

-----------------------------------------------------------------------------
(* Page load *)

\* C16: before the page has loaded no stats request exists; once it has
\* loaded, the stats requests are exactly one GET of /api/user/stats when
\* the page has a .dashboard element and none when it has not, whatever the
\* outcome of that request.
C16_OneStatsRequestPerPageLoad ==
    /\ ~loaded => requests[Stats] = <<>>
    /\ loaded =>
           requests[Stats] =
               IF ".dashboard" \in dom
               THEN <<[method |-> "GET", url |-> "/api/user/stats",
                       body |-> Undefined]>>
               ELSE <<>>

\* The one stats request of a dashboard page failed and was not repeated.
C16_Witness ==
    /\ loaded
    /\ ".dashboard" \in dom
    /\ statsPc = "done"
    /\ responses[Stats] \in {<<Rejected>>, <<Arrived(NotJson)>>}
    /\ Len(requests[Stats]) = 1

====
